---- MODULE Spec2Model ----
(***************************************************************************)
(* embeddage builder: the selection of the daily secret                   *)
(* (builder/word_of_day.py, scripts/build_day.py), the ranking of the      *)
(* vocabulary against it (builder/rankings.py), the projection of its      *)
(* neighbourhood to 3D (builder/projection.py) and the files written for   *)
(* the day (builder/artifacts.py), as build_day.py runs them.              *)
(*                                                                         *)
(* Conventions.  A numpy array is a function on 0..n-1, so an index of the *)
(* model is the index of the source; the empty array is the function on    *)
(* the empty set.  A row of the embedding matrix is a tuple of integers;   *)
(* every row of the model has the same squared norm, which stands for      *)
(* the unit norm of the source, and a similarity score is the integer dot  *)
(* product of two rows.  numpy's default sort and its partial selection    *)
(* are not stable: among equal scores they may return any order, and the   *)
(* model draws every such order.                                           *)
(***************************************************************************)
EXTENDS Integers, Sequences, FiniteSets, TLC

VARIABLES
    embeddings,     \* the caller's matrix, 0..V-1 -> row
    secret_id,      \* argument of compute_rankings
    k,              \* argument of compute_rankings (config.k)
    pc,             \* position of build_day.main
    err,            \* the exception that ended main, "none" otherwise
    rank,           \* RankingResult.rank, 0..V-1 -> 1..V
    local_ids,      \* RankingResult.local_ids
    local_scores,   \* RankingResult.local_scores
    partitioned,    \* the indices the partial selection returned, as a set
    coords,         \* the array returned by project_to_3d, rows 0..k-1
    svd_coords,     \* U[:, :3] * S[:3] as the decomposition returned it
    coords_again,   \* the array returned by a second call on the same input
    vocab,          \* the word list of words.json, 0..V-1 -> word
    date_str,       \* the date the puzzle is built for
    files,          \* the artifacts on disk, name -> content
    blacklist,      \* load_obscene_words(): the words of the data/ lists
    candidates,     \* data/secret_candidates.json: present, and its "words"
    vocab_size,     \* argument of secret_for_date
    min_length,     \* argument of secret_for_date
    alpha_only,     \* argument of secret_for_date
    freqs,          \* argument of secret_for_date: given, and the dict
    min_freq,       \* argument of secret_for_date
    probes,         \* the indices secret_for_date looked at, in order
    filter_args,    \* the arguments of filter_vocab
    filter_result,  \* what filter_vocab returned: words, vectors, stats
    search_word,    \* find_word_rank: the --word argument, lowered
    rank_read       \* the tuple a reader script unpacked from rank.bin

\* the fields of RankingResult, and the k+1 indices they were made from
rankVars == <<rank, local_ids, local_scores, partitioned>>

\* what the calls of project_to_3d leave behind
projVars == <<coords, svd_coords, coords_again>>

\* what build_day.main holds besides the matrix, and the output directory
buildVars == <<vocab, date_str, files>>

\* the data files of the selection and the arguments of secret_for_date
selVars == <<blacklist, candidates, vocab_size, min_length, alpha_only, freqs,
             min_freq, probes>>

\* the calls made outside of build_day.main
toolVars == <<filter_args, filter_result, search_word, rank_read>>

vars == <<embeddings, secret_id, k, pc, err, rankVars, projVars, buildVars,
          selVars, toolVars>>

----------------------------------------------------------------------------
(* Bounds of the model *)

\* largest vocabulary of the ranking specification
MaxV == 3

\* rows the ranking specification draws the matrix from: squared norm 9 each
Rows == { <<3, 0, 0>>, <<2, 2, 1>>, <<2, 1, 2>>, <<1, 2, 2>> }

\* largest neighbourhood of the projection specification
MaxNeighbors == 3

\* the vocabulary of the projection specification (squared norm 9 each); its
\* first V rows are the matrix, row 0 is the secret and no two of the other
\* rows are equally similar to it
ProjRows == << <<3, 0, 0>>, <<2, 2, 1>>, <<1, 2, 2>>, <<0, 3, 0>>,
               <<-1, 2, 2>>, <<-2, 2, 1>>, <<-3, 0, 0>> >>

\* Coordinates are fixed-point numbers: One units make 1.0, and a quotient
\* is rounded to the nearest unit, as float32 rounds a value near 1.0 to
\* the nearest representable one.
One == 4

\* the numerical floor 1e-8 of project_to_3d, one unit of the fixed point:
\* a non-zero value can lie within it
Floor == 1

\* values of one entry of U[:, :3] * S[:3]
SvdScoreValues == {-1, 0, 1}

\* the words of the build specification, one for each row of ProjRows
BuildWords == << "apple", "pear", "plum", "fig", "lime", "kiwi", "date" >>

\* the date of the build specification
BuildDate == "2025-01-01"

\* largest vocabulary of the selection specifications
MaxVocab == 3

\* the words a vocabulary of the selection specifications is made of
Words == {"ox", "b2b", "tree", "moon", "darn"}

\* the words for which str.isalpha() is false
NonAlphaWords == {"b2b"}

\* dates: two of the form YYYY-MM-DD, one with one-digit fields, one with a
\* newline after the day
Dates == {"2025-01-01", "2025-01-02", "2025-1-3", "2025-01-01\n"}

\* the dates that re.match(r"^\d{4}-\d{2}-\d{2}$", date) accepts: $ matches at
\* the end of the string and also just before a newline that ends it
WellFormedDates == {"2025-01-01", "2025-01-02", "2025-01-01\n"}

\* the first eight bytes of sha256(date) as an integer: small numbers stand
\* for the digests
SeedTable == [d \in Dates |-> CASE d = "2025-01-01" -> 7
                                [] d = "2025-01-02" -> 12
                                [] OTHER -> 2]

\* a frequency dict; "moon" and the other words are missing from it
FreqTable == [w \in {"tree", "darn", "ox"} |->
                CASE w = "tree" -> 5 [] w = "darn" -> 1 [] OTHER -> 9]

\* a min_freq that some entries of FreqTable miss
HighMinFreq == 2

\* min_length: int = 3, the default of secret_for_date
DefaultMinLength == 3

\* entries of a rank array handed to write_daily_artifacts: one, two and four
\* significant bytes
RankValues == {1, 258, 16909060}

\* the longest word list given to filter_vocab
MaxWords == 2

\* the words the lists of filter_vocab are made of; "[K]" stands for the
\* one character U+212A KELVIN SIGN
FilterWords == {"tree", "Tree", "ox", "b2b", "the", "lol", "darn", "yesss",
                "zorp", "[K]elvin"}

\* the members of STOPWORDS among these words
STOPWORDS == {"the"}

\* the members of INTERNET_GARBAGE among these words
INTERNET_GARBAGE == {"lol"}

\* an english dictionary: "zorp" is not in it
EnglishDict == {"tree", "ox", "the", "lol", "darn", "yesss", "kelvin"}

\* an obscene-word blocklist
ObsceneList == {"darn"}

\* blacklists of the selection specification
Blacklists == SUBSET {"darn", "moon"}

\* "words" of data/secret_candidates.json; "zest" is in no vocabulary
CandidateLists == { <<>>, <<"tree">>, <<"darn">>, <<"zest">>,
                    <<"tree", "darn">>, <<"darn", "tree">>,
                    <<"zest", "darn">>, <<"moon", "tree">> }

\* seed: int = 42, the default of project_to_3d
DefaultSeed == 42

\* seeds of the second call of project_to_3d, none of them the default
Seeds == {0, 43}

----------------------------------------------------------------------------
(* numpy arrays *)

Size(a) == Cardinality(DOMAIN a)

Empty == [i \in {} |-> 0]

Min(a, b) == IF a <= b THEN a ELSE b

Abs(x) == IF x < 0 THEN -x ELSE x

\* the positions themselves in place of the entries they select
TakePositions(a, ids) == ids

\* a[ids]: integer-array indexing
Take(a, ids) == [p \in DOMAIN ids |-> a[ids[p]]]

\* a[::-1]
Reversed(a) == [p \in DOMAIN a |-> a[Size(a) - 1 - p]]

\* a[-n:]
LastN(a, n) ==
    LET m == Min(n, Size(a))
    IN  [p \in 0..(m - 1) |-> a[Size(a) - m + p]]

\* a[:n]
FirstN(a, n) == [p \in 0..(Min(n, Size(a)) - 1) |-> a[p]]

\* a[a != x]: boolean-mask indexing keeps the remaining entries in order
Without(a, x) ==
    LET kept == {p \in DOMAIN a : a[p] # x}
        nth(j) == CHOOSE p \in kept : Cardinality({q \in kept : q < p}) = j
    IN  [j \in 0..(Cardinality(kept) - 1) |-> a[nth(j)]]

\* every arrangement of the set S as an array
Arrangements(S) ==
    {p \in [0..(Cardinality(S) - 1) -> S] :
        \A i, j \in DOMAIN p : i # j => p[i] # p[j]}

Values(a) == {a[p] : p \in DOMAIN a}

\* np.argsort(x): positions of x in ascending order of value; the default
\* kind is not stable, so equal values come in any order
ArgSort(x) ==
    {p \in Arrangements(DOMAIN x) :
        \A i \in DOMAIN p : i + 1 \in DOMAIN p => x[p[i]] <= x[p[i + 1]]}

\* the indices in an arbitrary order: no selection made
ArgPartitionUnordered(x, kth) == Arrangements(DOMAIN x)

\* np.argpartition(x, kth) for a kth that is in bounds: the entry at kth
\* (counted from the end when negative) is the one a full sort would put
\* there, nothing larger before it and nothing smaller after it
ArgPartition(x, kth) ==
    LET pos == IF kth < 0 THEN kth + Size(x) ELSE kth
    IN  {p \in Arrangements(DOMAIN x) :
            /\ \A i \in DOMAIN p : i < pos => x[p[i]] <= x[p[pos]]
            /\ \A i \in DOMAIN p : i > pos => x[p[i]] >= x[p[pos]]}

\* whether integer index i is accepted on an axis of length n
InBounds(i, n) == -n <= i /\ i < n

\* the position a (possibly negative) index denotes
Wrapped(i, n) == IF i < 0 THEN i + n ELSE i

RECURSIVE DotFrom(_, _, _)
DotFrom(a, b, i) ==
    IF i > Len(a) THEN 0 ELSE a[i] * b[i] + DotFrom(a, b, i + 1)

Dot(a, b) == DotFrom(a, b, 1)

----------------------------------------------------------------------------
(* compute_rankings *)

\* embeddings.shape[0]
VocabSize == Size(embeddings)

\* scores = embeddings @ embeddings[secret_id]
Scores(emb, sid) ==
    [i \in DOMAIN emb |-> Dot(emb[i], emb[Wrapped(sid, Size(emb))])]

\* the slice taken one entry short: [-k:] for [-k_plus:]
TopIndicesShort(scores, k_plus) ==
    {LastN(p, k_plus - 1) : p \in ArgPartition(scores, -k_plus)}

\* np.argpartition(scores, -k_plus)[-k_plus:], every outcome
TopIndices(scores, k_plus) ==
    {LastN(p, k_plus) : p \in ArgPartition(scores, -k_plus)}

\* the candidates left as they are
RemoveSecretSkipped(top_indices, sid) == top_indices

\* top_indices[top_indices != secret_id]
RemoveSecret(top_indices, sid) == Without(top_indices, sid)

\* top_indices[:k]
Truncate(top_indices, kk) == FirstN(top_indices, kk)

\* the ascending order, without the reversal
SortedOrdersAscending(scores, top_indices) ==
    ArgSort(Take(scores, top_indices))

\* np.argsort(scores[top_indices])[::-1], every outcome
SortedOrders(scores, top_indices) ==
    {Reversed(p) : p \in ArgSort(Take(scores, top_indices))}

\* np.argsort(scores), the reversal left out
FullOrdersAscending(scores) == ArgSort(scores)

\* np.argsort(scores)[::-1], every outcome
FullOrders(scores) == {Reversed(p) : p \in ArgSort(scores)}

\* ranks counted from 0: np.arange(0, V)
RankOfZeroBased(order) ==
    [i \in Values(order) |-> CHOOSE p \in DOMAIN order : order[p] = i]

\* rank = np.empty(V); rank[order] = np.arange(1, V + 1)
RankOf(order) ==
    [i \in Values(order) |-> 1 + (CHOOSE p \in DOMAIN order : order[p] = i)]

\* no vocabulary loaded and nothing written: the state of the output
\* directory before a build
NothingBuilt == vocab = Empty /\ date_str = "none" /\ files = Empty

\* freqs=None
NoFreqs == [given |-> FALSE, table |-> Empty]

\* no data file read and secret_for_date not called: its arguments at
\* their defaults
NoSelection ==
    /\ blacklist = {}
    /\ candidates = [present |-> FALSE, words |-> <<>>]
    /\ vocab_size = Size(vocab)
    /\ min_length = DefaultMinLength
    /\ alpha_only = TRUE
    /\ freqs = NoFreqs
    /\ min_freq = 0
    /\ probes = <<>>

\* rankings and projection not run
NothingComputed ==
    /\ embeddings = Empty
    /\ k = 0
    /\ rank = Empty
    /\ local_ids = Empty
    /\ local_scores = Empty
    /\ partitioned = {}
    /\ coords = Empty
    /\ svd_coords = Empty
    /\ coords_again = Empty
    /\ files = Empty

Raise(where, what) ==
    /\ pc' = where
    /\ err' = what
    /\ UNCHANGED <<embeddings, secret_id, k, rankVars, projVars, buildVars,
                   selVars, toolVars>>

ComputeRankings ==
    /\ pc = "start"
    /\ IF ~InBounds(secret_id, VocabSize)
       THEN Raise("rank_failed", "IndexError")
       ELSE IF ~InBounds(-(k + 1), VocabSize)
       THEN Raise("rank_failed", "ValueError")
       ELSE LET scores == Scores(embeddings, secret_id)
            IN  \E picked \in TopIndices(scores, k + 1) :
                  LET top_indices == Truncate(RemoveSecret(picked, secret_id), k)
                  IN  \E sorted_order \in SortedOrders(scores, top_indices) :
                      \E order \in FullOrders(scores) :
                        /\ partitioned' = Values(picked)
                        /\ local_ids' = Take(top_indices, sorted_order)
                        /\ local_scores' = Take(scores, local_ids')
                        /\ rank' = RankOf(order)
                        /\ pc' = "ranked"
                        /\ UNCHANGED <<embeddings, secret_id, k, err, projVars,
                                         buildVars, selVars, toolVars>>

----------------------------------------------------------------------------
(* project_to_3d *)

RECURSIVE SumTo(_, _)
\* a[0] + ... + a[n-1]
SumTo(a, n) == IF n <= 0 THEN 0 ELSE a[n - 1] + SumTo(a, n - 1)

\* np.sum(c[:, j])
ColSum(c, j) == SumTo([i \in DOMAIN c |-> c[i][j]], Size(c))

\* a / b for b > 0, rounded to the nearest unit, halves to the even one
RoundDiv(a, b) ==
    LET q == a \div b
        r == a % b
    IN  IF 2 * r < b THEN q
        ELSE IF 2 * r > b THEN q + 1
        ELSE IF q % 2 = 0 THEN q ELSE q + 1

\* a / sqrt(n) for n > 0, rounded to the nearest unit, halves to the even
\* one.  A float norm keeps its relative precision however small it is, so
\* the quotient is rounded once, from the exact norm.
RoundDivSqrt(a, n) ==
    LET p  == 4 * a * a
        lo(r) == (2 * r - 1) * (2 * r - 1) * n
        hi(r) == (2 * r + 1) * (2 * r + 1) * n
        q  == CHOOSE r \in 0..Abs(a) :
                /\ r = 0 \/ lo(r) < p \/ (lo(r) = p /\ r % 2 = 0)
                /\ p < hi(r) \/ (p = hi(r) /\ r % 2 = 0)
    IN  IF a < 0 THEN -q ELSE q

\* an array as a value computed once, element by element
Evaluated(a) == CHOOSE b \in {a} : b = a

\* embeddings.shape[1]
EmbedDim == Len(embeddings[0])

\* columns of U[:, :3] for U of shape (k, min(k, D)) (full_matrices=False)
NumComponents(kk, dim) == Min(3, Min(kk, dim))

\* One column of U[:, :3] * S[:3].  The decomposition is LAPACK's: its signs
\* are not determined by the input, and the model draws every column of
\* small entries.  The columns are scores of a centred matrix, so each one
\* sums to zero up to the rounding of the decomposition.
SvdColumns(kk) ==
    {c \in [0..(kk - 1) -> SvdScoreValues] : Abs(SumTo(c, kk)) <= Floor}

\* S[j] ** 2, the squared norm of column j of U * S (the columns of U are
\* unit vectors)
SingularSq(col) == SumTo([i \in DOMAIN col |-> col[i] * col[i]], Size(col))

\* coords = U[:, :3] * S[:3], every outcome, as rows 0..k-1.  The singular
\* values come in descending order, so the norms of the columns do not
\* increase.
SvdScores(kk, nc) ==
    {[i \in 0..(kk - 1) |-> [j \in 0..(nc - 1) |-> cols[j][i]]] :
        cols \in {cs \in [0..(nc - 1) -> SvdColumns(kk)] :
                    \A j \in 1..(nc - 1) :
                        SingularSq(cs[j - 1]) >= SingularSq(cs[j])}}

\* recentring at the anchor (row 0) in place of the centroid
RecentredAtAnchor(c) ==
    [i \in DOMAIN c |-> [j \in DOMAIN c[i] |-> c[i][j] - c[0][j]]]

\* centroid = coords.mean(axis=0); coords = coords - centroid
Recentred(c) ==
    LET centroid == Evaluated([j \in DOMAIN c[0] |->
                                  RoundDiv(ColSum(c, j), Size(c))])
    IN  [i \in DOMAIN c |-> [j \in DOMAIN c[i] |-> c[i][j] - centroid[j]]]

\* np.linalg.norm(coords, axis=1)[i], squared
RowNormSq(row) == SumTo([j \in 0..(Size(row) - 1) |-> row[j] * row[j]], Size(row))

\* norms.max(), squared, of a non-empty array
MaxNormSq(c) ==
    LET norms == {RowNormSq(c[i]) : i \in DOMAIN c}
    IN  CHOOSE m \in norms : \A n \in norms : n <= m

\* coords / max_norm**2: the square root left out
ScaledBySquare(c) ==
    LET max_sq == MaxNormSq(c)
    IN  IF max_sq > Floor * Floor
        THEN [i \in DOMAIN c |->
                [j \in DOMAIN c[i] |-> RoundDiv(c[i][j] * One, max_sq)]]
        ELSE c

\* if max_norm > 1e-8: coords = coords / max_norm
Scaled(c) ==
    LET max_sq == MaxNormSq(c)
        values == {c[i][j] : i \in DOMAIN c, j \in DOMAIN c[0]}
        quot   == Evaluated([v \in values |-> RoundDivSqrt(v * One, max_sq)])
    IN  IF max_sq > Floor * Floor
        THEN [i \in DOMAIN c |-> [j \in DOMAIN c[i] |-> quot[c[i][j]]]]
        ELSE c

\* coords[:, j] *= -1
FlipAxis(c, j) == [i \in DOMAIN c |-> [c[i] EXCEPT ![j] = -c[i][j]]]

\* for j in range(3): if anchor[j] < 0: coords[:, j] *= -1
\* (anchor is row 0; an axis is decided by its own anchor entry alone)
AnchorPass(c) ==
    LET anchor == c[0]
    IN  [i \in DOMAIN c |->
            [j \in DOMAIN c[i] |-> IF anchor[j] < 0 THEN -c[i][j] ELSE c[i][j]]]

\* the second loop without its break: every axis beyond the floor is examined
SumPassEveryAxis(c) ==
    [i \in DOMAIN c |->
        [j \in DOMAIN c[i] |->
            IF ColSum(c, j) < -Floor THEN -c[i][j] ELSE c[i][j]]]

\* for j in range(3): the first axis whose column sum is beyond the floor is
\* negated when its sum is negative, and the loop stops there
SumPass(c) ==
    LET beyond == {j \in 0..2 : Abs(ColSum(c, j)) > Floor}
    IN  IF beyond = {} THEN c
        ELSE LET j == CHOOSE a \in beyond : \A b \in beyond : a <= b
             IN  IF ColSum(c, j) < 0 THEN FlipAxis(c, j) ELSE c

\* the seed argument put to use: an odd seed mirrors the first axis
Project3dSeeded(usv, sd) ==
    LET recentred == Recentred(usv)
        scaled    == Scaled(recentred)
        anchored  == AnchorPass(scaled)
        out       == SumPass(anchored)
    IN  IF sd % 2 = 1 THEN FlipAxis(out, 0) ELSE out

\* lines 52-79 of project_to_3d on the decomposition's coordinates; the seed
\* argument is read nowhere
Project3d(usv, sd) ==
    LET recentred == Evaluated(Recentred(usv))
        scaled    == Evaluated(Scaled(recentred))
        anchored  == Evaluated(AnchorPass(scaled))
    IN  SumPass(anchored)

\* rows of the caller's matrix negated in place, as if local_vecs were a
\* view of the matrix
CallerMatrixAliased(emb, ids) ==
    [i \in DOMAIN emb |->
        IF i \in Values(ids) THEN [j \in DOMAIN emb[i] |-> -emb[i][j]]
        ELSE emb[i]]

\* the caller's matrix after project_to_3d: local_vecs = embeddings[local_ids]
\* is a copy (integer-array indexing), centered and coords are new arrays,
\* and the in-place sign flips are applied to coords
CallerMatrix(emb, ids) == emb

\* project_to_3d(embeddings, result.local_ids).  With no neighbour the
\* decomposition of the (0, D) matrix is empty and norms.max() has nothing to
\* reduce; with fewer than 3 components anchor[j] runs off the row.
ProjectTo3d ==
    /\ pc = "ranked"
    /\ LET kk == Size(local_ids)
           nc == NumComponents(kk, EmbedDim)
       IN  \E usv \in SvdScores(kk, nc) :
             IF kk = 0
             THEN Raise("project_failed", "ValueError")
             ELSE IF nc < 3
             THEN Raise("project_failed", "IndexError")
             ELSE /\ svd_coords' = usv
                  /\ coords' = Project3d(usv, DefaultSeed)
                  /\ embeddings' = CallerMatrix(embeddings, local_ids)
                  /\ pc' = "projected"
                  /\ UNCHANGED <<secret_id, k, err, rankVars, coords_again,
                                 buildVars, selVars, toolVars>>

\* a second call project_to_3d(embeddings, local_ids, seed) on the same
\* arguments but for the seed: LAPACK is a function of its input, so the
\* decomposition of the same centred rows is the same
ProjectAgain ==
    /\ pc = "projected"
    /\ \E sd \in Seeds :
          /\ coords_again' = Project3d(svd_coords, sd)
          /\ embeddings' = CallerMatrix(embeddings, local_ids)
          /\ pc' = "projected_again"
          /\ UNCHANGED <<secret_id, k, err, rankVars, coords, svd_coords,
                         buildVars, selVars, toolVars>>

----------------------------------------------------------------------------
(* write_daily_artifacts *)

\* hashlib.sha256(text).digest(): the digest is a token of its input, so
\* that equal digests mean equal inputs and nothing else is known of it
Sha256(text) == <<"sha256", text>>

\* hash_secret(word, salt): sha256 of the word followed by the salt
hash_secret(word, salt) == Sha256(<<word, salt>>)

\* the byte at position b of v.astype("<u4"), least significant first
U32Byte(v, b) == (v \div (256 ^ b)) % 256

\* rank.astype("<u4").tofile: four bytes an entry, in index order
RankBytes(r) == [p \in 0..(4 * Size(r) - 1) |-> U32Byte(r[p \div 4], p % 4)]

\* coords.astype("<f4").tofile: the values row by row, one float32 cell each
XyzCells(c) ==
    LET width == IF Size(c) = 0 THEN 0 ELSE Size(c[0])
    IN  [p \in 0..(Size(c) * width - 1) |-> c[p \div width][p % width]]

\* rank_path.stat().st_size
RankFileSize(bytes) == Size(bytes)

\* xyz_path.stat().st_size: four bytes a cell
XyzFileSize(cells) == 4 * Size(cells)

\* the meta dict of write_daily_artifacts; the entries copied from the
\* config (schema version, time zone, dimension, method) are left out
Meta(date, sid, word, v_size, kk) ==
    [date |-> date, k |-> kk, vocab_size |-> v_size,
     projection_seed |-> Sha256(date), secret_hash |-> hash_secret(word, date),
     secret_id |-> sid, secret_word |-> word]

\* write_daily_artifacts(date_str, secret_id, secret_word, vocab_size, rank,
\* local_ids, coords): the four files in order, each size assertion after
\* its file; a failed assertion leaves the files written so far
WriteDailyArtifacts ==
    /\ pc = "projected"
    /\ LET kk         == Size(local_ids)
           v_size     == vocab_size
           rank_le    == RankBytes(rank)
           cells      == XyzCells(coords)
           upto_rank  == [n \in {"meta", "local_ids", "rank"} |->
                            CASE n = "meta" ->
                                   Meta(date_str, secret_id, vocab[secret_id],
                                        v_size, kk)
                              [] n = "local_ids" -> local_ids
                              [] n = "rank" -> rank_le]
           all_four   == [n \in {"meta", "local_ids", "rank", "local_xyz"} |->
                            IF n = "local_xyz" THEN cells ELSE upto_rank[n]]
       IN  IF RankFileSize(rank_le) # 4 * v_size
           THEN /\ files' = upto_rank
                /\ pc' = "write_failed"
                /\ err' = "AssertionError"
           ELSE IF XyzFileSize(cells) # 12 * kk
           THEN /\ files' = all_four
                /\ pc' = "write_failed"
                /\ err' = "AssertionError"
           ELSE /\ files' = all_four
                /\ pc' = "written"
                /\ err' = err
    /\ UNCHANGED <<embeddings, secret_id, k, rankVars, projVars, vocab,
                   date_str, selVars, toolVars>>

----------------------------------------------------------------------------
(* secret_for_date and the selection of build_day.main *)

\* word.isalpha()
IsAlpha(word) == word \notin NonAlphaWords

\* re.match(r"^\d{4}-\d{2}-\d{2}$", date_str)
MatchesDate(date) == date \in WellFormedDates

\* int.from_bytes(hashlib.sha256(date_str).digest()[:8], "little")
SeedInt(date) == SeedTable[date]

\* freqs.get(word, 0)
FreqOf(table, word) == IF word \in DOMAIN table THEN table[word] ELSE 0

\* the validity test with its length branch alone
IsValidLengthOnly(word, a) == Len(word) >= a.min_length

\* is_valid of secret_for_date for the arguments a
IsValid(word, a) ==
    IF Len(word) < a.min_length THEN FALSE
    ELSE IF a.alpha_only /\ ~IsAlpha(word) THEN FALSE
    ELSE IF a.freqs.given /\ FreqOf(a.freqs.table, word) < a.min_freq THEN FALSE
    ELSE TRUE

RECURSIVE Probe(_, _, _, _)
\* the while loop of secret_for_date from candidate sid on: how the call
\* ends, the index it ends on and the indices looked at
Probe(sid, attempts, probed, a) ==
    IF attempts >= a.vocab_size
    THEN [outcome |-> "RuntimeError", id |-> sid, probed |-> probed]
    ELSE IF sid \notin DOMAIN a.vocab
    THEN [outcome |-> "IndexError", id |-> sid, probed |-> Append(probed, sid)]
    ELSE IF IsValid(a.vocab[sid], a)
    THEN [outcome |-> "return", id |-> sid, probed |-> Append(probed, sid)]
    ELSE Probe((sid + 1) % a.vocab_size, attempts + 1, Append(probed, sid), a)

\* secret_for_date(date, **a)
secret_for_date(date, a) ==
    IF ~MatchesDate(date)
    THEN [outcome |-> "ValueError", id |-> 0, probed |-> <<>>]
    ELSE IF a.vocab_size = 0
    THEN [outcome |-> "ZeroDivisionError", id |-> 0, probed |-> <<>>]
    ELSE Probe(SeedInt(date) % a.vocab_size, 0, <<>>, a)

\* the arguments of secret_for_date(date_str, V, vocab)
DefaultArgs(words) ==
    [vocab_size |-> Size(words), vocab |-> words,
     min_length |-> DefaultMinLength, alpha_only |-> TRUE, freqs |-> NoFreqs,
     min_freq |-> 0]

\* a call of secret_for_date with the arguments of the state
SecretForDate ==
    /\ pc = "start"
    /\ LET res == secret_for_date(date_str,
                     [vocab_size |-> vocab_size, vocab |-> vocab,
                      min_length |-> min_length, alpha_only |-> alpha_only,
                      freqs |-> freqs, min_freq |-> min_freq])
       IN  /\ probes' = res.probed
           /\ IF res.outcome = "return"
              THEN /\ secret_id' = res.id
                   /\ pc' = "secret_returned"
                   /\ err' = err
              ELSE /\ secret_id' = secret_id
                   /\ pc' = "secret_failed"
                   /\ err' = res.outcome
    /\ UNCHANGED <<embeddings, k, rankVars, projVars, buildVars, blacklist,
                   candidates, vocab_size, min_length, alpha_only, freqs,
                   min_freq, toolVars>>

\* word_to_id[w]: the dict keeps the last index of a word
WordToId(words, w) ==
    CHOOSE i \in DOMAIN words :
        words[i] = w /\ \A j \in DOMAIN words : words[j] = w => j <= i

\* candidate_ids: the candidate words that pass the blacklist and are in
\* the vocabulary, as indices (a Python list, here a sequence from 1)
CandidateIds(cand_words, words, black) ==
    LET Usable(w) == w \notin black /\ w \in Values(words)
        usable    == SelectSeq(cand_words, Usable)
    IN  [p \in 1..Len(usable) |-> WordToId(words, usable[p])]

\* the selection of build_day.main: from the candidate file when it has
\* usable entries, else secret_for_date over the full vocabulary
SelectSecret ==
    /\ pc = "start"
    /\ LET candidate_ids == CandidateIds(candidates.words, vocab, blacklist)
           fallback      == secret_for_date(date_str, DefaultArgs(vocab))
       IN  IF candidates.present /\ Len(candidate_ids) > 0
           THEN /\ secret_id' =
                       candidate_ids[(SeedInt(date_str) % Len(candidate_ids)) + 1]
                /\ pc' = "selected"
                /\ UNCHANGED <<err, probes>>
           ELSE IF fallback.outcome = "return"
           THEN /\ secret_id' = fallback.id
                /\ probes' = fallback.probed
                /\ pc' = "selected"
                /\ err' = err
           ELSE /\ probes' = fallback.probed
                /\ pc' = "select_failed"
                /\ err' = fallback.outcome
                /\ secret_id' = secret_id
    /\ UNCHANGED <<embeddings, k, rankVars, projVars, buildVars, blacklist,
                   candidates, vocab_size, min_length, alpha_only, freqs,
                   min_freq, toolVars>>

----------------------------------------------------------------------------
(* the reader scripts find_word_rank and show_top_words_simple *)

\* entry i of the array read with its most significant byte first
U32FromBytesBigEndian(data, i) ==
    data[4 * i] * (256 ^ 3) + data[4 * i + 1] * (256 ^ 2)
        + data[4 * i + 2] * 256 + data[4 * i + 3]

\* entry i of struct.unpack("<nI", data): four bytes, least significant first
U32FromBytes(data, i) ==
    data[4 * i] + data[4 * i + 1] * 256 + data[4 * i + 2] * (256 ^ 2)
        + data[4 * i + 3] * (256 ^ 3)

\* the read of rank.bin of both scripts: the size is compared with 4 times
\* the vocab_size of meta.json, then the bytes are unpacked
ReadRank(disk) ==
    LET v_size == disk["meta"].vocab_size
        data   == disk["rank"]
    IN  IF Size(data) # 4 * v_size
        THEN [outcome |-> "ValueError", rank |-> Empty]
        ELSE [outcome |-> "none",
              rank |-> [i \in 0..(v_size - 1) |-> U32FromBytes(data, i)]]

\* the reader's exit: its position, its exception and the tuple it unpacked
ReaderEnds(where, what, unpacked) ==
    /\ pc' = where
    /\ err' = what
    /\ rank_read' = unpacked
    /\ UNCHANGED <<embeddings, secret_id, k, rankVars, projVars, buildVars,
                   selVars, filter_args, filter_result>>

\* find_word_rank --word w: the word is looked up in words.json before
\* rank.bin is read; rank[word_id], the percentile and rank[secret_id] follow
FindWordRank ==
    /\ pc \in {"written", "write_failed"}
    /\ \E w \in Values(vocab) \cup {"zest"} :
          /\ search_word' = w
          /\ IF w \notin Values(vocab)
             THEN ReaderEnds("find_failed", "SystemExit", Empty)
             ELSE LET read    == ReadRank(files)
                      v_size  == files["meta"].vocab_size
                      word_id == WordToId(vocab, w)
                  IN  IF read.outcome # "none"
                      THEN ReaderEnds("find_failed", read.outcome, Empty)
                      ELSE IF word_id >= v_size
                      THEN ReaderEnds("find_failed", "IndexError", read.rank)
                      ELSE IF v_size = 1
                      THEN ReaderEnds("find_failed", "ZeroDivisionError",
                                      read.rank)
                      ELSE IF files["meta"].secret_id >= v_size
                      THEN ReaderEnds("find_failed", "IndexError", read.rank)
                      ELSE ReaderEnds("found", "none", read.rank)

\* show_top_words_simple: rank.bin is read, then rank[i] is paired with
\* words[i] for every word of words.json
ShowTopWords ==
    /\ pc \in {"written", "write_failed"}
    /\ search_word' = search_word
    /\ LET read == ReadRank(files)
       IN  IF read.outcome # "none"
           THEN ReaderEnds("show_failed", read.outcome, Empty)
           ELSE IF Size(vocab) > files["meta"].vocab_size
           THEN ReaderEnds("show_failed", "IndexError", read.rank)
           ELSE ReaderEnds("shown", "none", read.rank)

----------------------------------------------------------------------------
(* is_valid_word and filter_vocab *)

\* len(word), in code points
PyLen(word) == IF word = "[K]elvin" THEN 6 ELSE Len(word)

\* word.lower(): U+212A lowers to the ASCII letter k
Lower(word) ==
    CASE word = "Tree" -> "tree"
      [] word = "[K]elvin" -> "kelvin"
      [] OTHER -> word

\* word.isascii()
IsAscii(word) == word # "[K]elvin"

\* REPEATED_CHARS.search(w): a character three or more times in a row
RepeatedChars(w) == w \in {"yesss"}

\* english_words=None, obscene_words=None
NoSet == [given |-> FALSE, set |-> {}]

\* is_valid_word(word, min_length, english_words, obscene_words): length and
\* letters are tested on the word as given, the rest on the lowered word
is_valid_word(word, a) ==
    LET w == Lower(word)
    IN  IF PyLen(word) < a.min_length THEN FALSE
        ELSE IF ~IsAlpha(word) \/ ~IsAscii(word) THEN FALSE
        ELSE IF a.english_words.given /\ w \notin a.english_words.set THEN FALSE
        ELSE IF w \in STOPWORDS THEN FALSE
        ELSE IF w \in INTERNET_GARBAGE THEN FALSE
        ELSE IF a.obscene_words.given /\ w \in a.obscene_words.set THEN FALSE
        ELSE IF RepeatedChars(w) THEN FALSE
        ELSE TRUE

\* the counters of stats besides "total" and "kept"
RejectCounters == {"too_short", "non_alpha_or_non_ascii", "not_in_dict",
                   "stopword", "repeated_chars", "internet_garbage", "obscene"}

\* one pass of the loop of filter_vocab on the lowered word w: the counter
\* that is incremented
Verdict(w, a) ==
    IF PyLen(w) < a.min_length THEN "too_short"
    ELSE IF ~IsAlpha(w) \/ ~IsAscii(w) THEN "non_alpha_or_non_ascii"
    ELSE IF a.english_words.given /\ w \notin a.english_words.set
    THEN "not_in_dict"
    ELSE IF w \in STOPWORDS THEN "stopword"
    ELSE IF w \in INTERNET_GARBAGE THEN "internet_garbage"
    ELSE IF a.obscene_words.given /\ w \in a.obscene_words.set THEN "obscene"
    ELSE IF RepeatedChars(w) THEN "repeated_chars"
    ELSE "kept"

\* the members of a set of indices in ascending order, from position 0
Ascending(S) ==
    CHOOSE f \in [0..(Cardinality(S) - 1) -> S] :
        \A i, j \in 0..(Cardinality(S) - 1) : i < j => f[i] < f[j]

\* filter_vocab(words, vectors, min_length, english_words, obscene_words):
\* zip pairs the two lists up to the shorter one
filter_vocab(a) ==
    LET n       == Min(Size(a.words), Size(a.vectors))
        verdict == [i \in 0..(n - 1) |-> Verdict(Lower(a.words[i]), a)]
        kept    == Ascending({i \in 0..(n - 1) : verdict[i] = "kept"})
    IN  [words   |-> [p \in DOMAIN kept |-> Lower(a.words[kept[p]])],
         vectors |-> [p \in DOMAIN kept |-> a.vectors[kept[p]]],
         stats   |-> [c \in RejectCounters \cup {"total", "kept"} |->
                        IF c = "total" THEN Size(a.words)
                        ELSE Cardinality({i \in 0..(n - 1) : verdict[i] = c})]]

\* no reader script run
NotRead == search_word = "none" /\ rank_read = Empty

\* no call of filter_vocab
NotFiltered ==
    /\ filter_args = [words |-> Empty, vectors |-> Empty, min_length |-> 0,
                      english_words |-> NoSet, obscene_words |-> NoSet]
    /\ filter_result = [words |-> Empty, vectors |-> Empty, stats |-> Empty]

\* a call of filter_vocab with the arguments of the state
FilterVocab ==
    /\ pc = "start"
    /\ filter_result' = filter_vocab(filter_args)
    /\ pc' = "filtered"
    /\ UNCHANGED <<embeddings, secret_id, k, err, rankVars, projVars,
                   buildVars, selVars, filter_args, search_word, rank_read>>

----------------------------------------------------------------------------
(* the ranking specification: compute_rankings on every small matrix *)

Init ==
    /\ \E V \in 1..MaxV : embeddings \in [0..(V - 1) -> Rows]
    /\ secret_id \in (-(MaxV + 1))..MaxV
    /\ k \in 0..MaxV
    /\ pc = "start"
    /\ err = "none"
    /\ rank = Empty
    /\ local_ids = Empty
    /\ local_scores = Empty
    /\ partitioned = {}
    /\ coords = Empty
    /\ svd_coords = Empty
    /\ coords_again = Empty
    /\ NothingBuilt
    /\ NoSelection
    /\ NotFiltered
    /\ NotRead

Next == ComputeRankings

Spec == Init /\ [][Next]_vars

----------------------------------------------------------------------------
(* the projection specification: build_day's two calls, compute_rankings    *)
(* and then project_to_3d on its neighbours, for the vocabulary ProjRows    *)

InitProject ==
    /\ \E V \in 1..(MaxNeighbors + 1) :
          embeddings = [i \in 0..(V - 1) |-> ProjRows[i + 1]]
    /\ secret_id = 0
    /\ k \in 0..MaxNeighbors
    /\ pc = "start"
    /\ err = "none"
    /\ rank = Empty
    /\ local_ids = Empty
    /\ local_scores = Empty
    /\ partitioned = {}
    /\ coords = Empty
    /\ svd_coords = Empty
    /\ coords_again = Empty
    /\ NothingBuilt
    /\ NoSelection
    /\ NotFiltered
    /\ NotRead

NextProject == ComputeRankings \/ ProjectTo3d \/ ProjectAgain

SpecProject == InitProject /\ [][NextProject]_vars

----------------------------------------------------------------------------
(* the build specification: build_day.main from the ranking to the files,   *)
(* for the vocabulary BuildWords with the rows ProjRows and the secret 0    *)

InitBuild ==
    /\ \E V \in 1..(MaxNeighbors + 1) :
          /\ embeddings = [i \in 0..(V - 1) |-> ProjRows[i + 1]]
          /\ vocab = [i \in 0..(V - 1) |-> BuildWords[i + 1]]
    /\ secret_id = 0
    /\ k \in 0..MaxNeighbors
    /\ pc = "start"
    /\ err = "none"
    /\ rank = Empty
    /\ local_ids = Empty
    /\ local_scores = Empty
    /\ partitioned = {}
    /\ coords = Empty
    /\ svd_coords = Empty
    /\ coords_again = Empty
    /\ date_str = BuildDate
    /\ files = Empty
    /\ NoSelection
    /\ NotFiltered
    /\ NotRead

NextBuild == ComputeRankings \/ ProjectTo3d \/ WriteDailyArtifacts

SpecBuild == InitBuild /\ [][NextBuild]_vars

----------------------------------------------------------------------------
(* the secret_for_date specification: one call on every small vocabulary   *)
(* of distinct words, with every combination of the filters                *)

\* word lists of distinct words
Vocabularies ==
    {w \in UNION {[0..(V - 1) -> Words] : V \in 1..MaxVocab} :
        \A i, j \in DOMAIN w : i # j => w[i] # w[j]}

InitSecret ==
    /\ vocab \in Vocabularies \cup {Empty}
    /\ date_str \in Dates
    /\ vocab_size \in 0..(Size(vocab) + 1)
    /\ min_length \in {1, DefaultMinLength}
    /\ alpha_only \in BOOLEAN
    /\ freqs \in {NoFreqs, [given |-> TRUE, table |-> FreqTable]}
    /\ min_freq \in {0, HighMinFreq}
    /\ blacklist = {}
    /\ candidates = [present |-> FALSE, words |-> <<>>]
    /\ probes = <<>>
    /\ secret_id = -1
    /\ pc = "start"
    /\ err = "none"
    /\ NothingComputed
    /\ NotFiltered
    /\ NotRead

NextSecret == SecretForDate

SpecSecret == InitSecret /\ [][NextSecret]_vars

----------------------------------------------------------------------------
(* the selection specification: the secret of build_day.main for every     *)
(* small vocabulary, blacklist and candidate file                          *)

InitSelect ==
    /\ vocab \in Vocabularies
    /\ date_str \in Dates
    /\ blacklist \in Blacklists
    /\ \/ candidates = [present |-> FALSE, words |-> <<>>]
       \/ \E ws \in CandidateLists : candidates = [present |-> TRUE, words |-> ws]
    /\ vocab_size = Size(vocab)
    /\ min_length = DefaultMinLength
    /\ alpha_only = TRUE
    /\ freqs = NoFreqs
    /\ min_freq = 0
    /\ probes = <<>>
    /\ secret_id = -1
    /\ pc = "start"
    /\ err = "none"
    /\ NothingComputed
    /\ NotFiltered
    /\ NotRead

NextSelect == SelectSecret

SpecSelect == InitSelect /\ [][NextSelect]_vars

----------------------------------------------------------------------------
(* the filter specification: filter_vocab on every short word list, with  *)
(* and without the dictionary and the blocklist                            *)

InitFilter ==
    /\ \E n \in 0..MaxWords :
          \E ws \in [0..(n - 1) -> FilterWords] :
            \E ml \in {1, DefaultMinLength} :
              \E ew \in {NoSet, [given |-> TRUE, set |-> EnglishDict]} :
                \E ow \in {NoSet, [given |-> TRUE, set |-> ObsceneList]} :
                  filter_args = [words |-> ws,
                                 vectors |-> [i \in 0..(n - 1) |-> <<i>>],
                                 min_length |-> ml,
                                 english_words |-> ew, obscene_words |-> ow]
    /\ filter_result = [words |-> Empty, vectors |-> Empty, stats |-> Empty]
    /\ NotRead
    /\ secret_id = -1
    /\ pc = "start"
    /\ err = "none"
    /\ NothingComputed
    /\ NothingBuilt
    /\ NoSelection

NextFilter == FilterVocab

SpecFilter == InitFilter /\ [][NextFilter]_vars

----------------------------------------------------------------------------
(* the artifact specification: write_daily_artifacts called with every     *)
(* small rank array, vocab_size and coordinate array, then one reader      *)

InitArtifacts ==
    /\ \E V \in 1..MaxV : vocab = [i \in 0..(V - 1) |-> BuildWords[i + 1]]
    /\ \E n \in 0..MaxV : rank \in [0..(n - 1) -> RankValues]
    /\ vocab_size \in 0..(MaxV + 1)
    /\ \E kk \in 0..1 :
          /\ local_ids = [i \in 0..(kk - 1) |-> i + 1]
          /\ \E rows \in {kk, kk + 1} :
                coords = [i \in 0..(rows - 1) |-> [j \in 0..2 |-> 0]]
          /\ k = kk
    /\ secret_id = 0
    /\ date_str = BuildDate
    /\ files = Empty
    /\ pc = "projected"
    /\ err = "none"
    /\ embeddings = Empty
    /\ local_scores = Empty
    /\ partitioned = {}
    /\ svd_coords = Empty
    /\ coords_again = Empty
    /\ blacklist = {}
    /\ candidates = [present |-> FALSE, words |-> <<>>]
    /\ min_length = DefaultMinLength
    /\ alpha_only = TRUE
    /\ freqs = NoFreqs
    /\ min_freq = 0
    /\ probes = <<>>
    /\ NotFiltered
    /\ NotRead

NextArtifacts == WriteDailyArtifacts \/ FindWordRank \/ ShowTopWords

SpecArtifacts == InitArtifacts /\ [][NextArtifacts]_vars

----------------------------------------------------------------------------
(* Properties of compute_rankings, checked under Spec *)

ValidSecret == secret_id \in 0..(VocabSize - 1)

Ranked == pc = "ranked"

\* the scores compute_rankings worked with
CallScores == Scores(embeddings, secret_id)

\* indices other than the secret whose row is the secret's row
Duplicates == {i \in DOMAIN embeddings :
                  i # secret_id /\ embeddings[i] = embeddings[secret_id]}

\* C1: for every valid secret_id the returned rank array gives the secret
\* rank 1, also when another row is identical to the secret's row.
C1_SecretRankedFirst ==
    (Ranked /\ ValidSecret) => rank[secret_id] = 1

\* C2: for every valid secret_id and every score vector, ties included, the
\* rank array has length V and takes every value of 1..V exactly once.
C2_RankIsBijection ==
    (Ranked /\ ValidSecret) =>
        /\ DOMAIN rank = 0..(VocabSize - 1)
        /\ \A r \in 1..VocabSize :
              Cardinality({i \in DOMAIN rank : rank[i] = r}) = 1

C2_Witness ==
    /\ Ranked /\ ValidSecret /\ VocabSize >= 3
    /\ \E i, j \in DOMAIN embeddings : i # j /\ CallScores[i] = CallScores[j]

\* C3: for a valid secret_id and 0 <= k <= V-1, whatever the ties, local_ids
\* has exactly k entries, all distinct, none of them the secret.
C3_NeighbourCount ==
    (Ranked /\ ValidSecret /\ k <= VocabSize - 1) =>
        /\ Size(local_ids) = k
        /\ \A p, q \in DOMAIN local_ids : p # q => local_ids[p] # local_ids[q]
        /\ \A p \in DOMAIN local_ids : local_ids[p] # secret_id

\* k + 1 rows besides the secret tie with it, so the partial selection may
\* leave the secret out and the candidates are cut back to k
C3_Witness ==
    /\ Ranked /\ ValidSecret /\ k >= 1
    /\ Cardinality(Duplicates) >= k + 1
    /\ Size(local_ids) = k

\* C4: when k > V-1 compute_rankings does not fail; it returns the V-1
\* indices other than the secret as neighbours.
C4_CappedWhenKTooLarge ==
    (pc # "start" /\ ValidSecret /\ k > VocabSize - 1) =>
        /\ Ranked
        /\ Size(local_ids) = VocabSize - 1
        /\ Values(local_ids) = (0..(VocabSize - 1)) \ {secret_id}

\* C5: every secret_id outside [0, V), negative ones included, makes
\* compute_rankings fail with an index error; no result is returned.
\* (stated for k <= V-1, where the selection itself is in bounds)
C5_OutOfRangeSecretFails ==
    (pc # "start" /\ ~ValidSecret /\ k <= VocabSize - 1) =>
        (pc = "rank_failed" /\ err = "IndexError")

\* C6: in the rank array equal scores are ordered by vocabulary index
\* ascending: scores[i] = scores[j] and i < j give rank[i] < rank[j].
C6_TiesByIndexAscending ==
    (Ranked /\ ValidSecret) =>
        \A i, j \in DOMAIN rank :
            (i < j /\ CallScores[i] = CallScores[j]) => rank[i] < rank[j]

\* C7: local_scores does not increase along the list, and local_scores[j] is
\* the dot product of row local_ids[j] with the secret's row.
C7_LocalScores ==
    Ranked =>
        /\ DOMAIN local_scores = DOMAIN local_ids
        /\ \A j \in DOMAIN local_scores :
              j + 1 \in DOMAIN local_scores =>
                  local_scores[j] >= local_scores[j + 1]
        /\ \A j \in DOMAIN local_scores :
              local_scores[j] =
                  Dot(embeddings[local_ids[j]],
                      embeddings[Wrapped(secret_id, VocabSize)])

C7_Witness ==
    /\ Ranked /\ ValidSecret /\ Size(local_scores) >= 2
    /\ local_scores[0] > local_scores[1]

\* C8: with k = V-1 every index other than the secret is a neighbour exactly
\* once, and the neighbours come in descending similarity to the secret.
C8_AllOthersWhenKIsVMinusOne ==
    (Ranked /\ ValidSecret /\ k = VocabSize - 1) =>
        /\ Values(local_ids) = (0..(VocabSize - 1)) \ {secret_id}
        /\ Size(local_ids) = VocabSize - 1
        /\ \A p, q \in DOMAIN local_ids :
              p < q => CallScores[local_ids[p]] >= CallScores[local_ids[q]]

C8_Witness ==
    /\ Ranked /\ ValidSecret /\ k = VocabSize - 1 /\ k >= 2
    /\ CallScores[local_ids[0]] > CallScores[local_ids[1]]

\* C20: for a valid secret_id and 0 <= k <= V-1 (the rows have one norm),
\* local_ids is a set of k highest-scoring indices other than the secret:
\* no index outside local_ids, the secret apart, scores above the lowest
\* score in local_ids; also when the secret is not among the k+1 indices of
\* the partial selection and the candidates are cut back to k.
C20_NeighboursAreTopK ==
    (Ranked /\ ValidSecret /\ k <= VocabSize - 1) =>
        /\ Size(local_ids) = k
        /\ \A i \in DOMAIN embeddings :
              (i # secret_id /\ i \notin Values(local_ids)) =>
                  \A p \in DOMAIN local_ids :
                      CallScores[i] <= CallScores[local_ids[p]]

\* the partial selection left the secret out and the list was cut back
\* to k
C20_Witness ==
    /\ Ranked /\ ValidSecret /\ k >= 1 /\ k <= VocabSize - 1
    /\ secret_id \notin partitioned
    /\ Cardinality(partitioned) = k + 1
    /\ Size(local_ids) = k

\* C21: the rank array orders the items by similarity: rank[i] < rank[j]
\* implies scores[i] >= scores[j], for all indices i and j.
C21_RankOrdersBySimilarity ==
    Ranked =>
        \A i, j \in DOMAIN rank :
            rank[i] < rank[j] => CallScores[i] >= CallScores[j]

\* three items, two of them tied and one strictly below
C21_Witness ==
    /\ Ranked /\ ValidSecret /\ VocabSize >= 3
    /\ \E i, j \in DOMAIN rank : i # j /\ CallScores[i] = CallScores[j]
    /\ \E i, j \in DOMAIN rank :
          rank[i] < rank[j] /\ CallScores[i] > CallScores[j]

\* all scores of the call differ and the secret's is the highest
DistinctScores ==
    /\ \A i, j \in DOMAIN embeddings : i # j => CallScores[i] # CallScores[j]
    /\ \A i \in DOMAIN embeddings : CallScores[i] <= CallScores[secret_id]

\* C22: when all scores are pairwise distinct and the secret's is the
\* highest, the j-th neighbour (from 0) is the index of rank j + 2, for
\* every j < k.
C22_NeighboursAgreeWithRank ==
    (Ranked /\ ValidSecret /\ DistinctScores) =>
        /\ Size(local_ids) = k
        /\ \A j \in DOMAIN local_ids : rank[local_ids[j]] = j + 2

C22_Witness ==
    /\ Ranked /\ ValidSecret /\ DistinctScores
    /\ k >= 2 /\ Size(local_ids) = k

----------------------------------------------------------------------------
(* Properties of project_to_3d, checked under SpecProject *)

Projected == pc = "projected"

\* C9: with k = 0 compute_rankings returns an empty neighbour list and
\* project_to_3d of that list returns an empty coordinate set; neither call
\* raises.
C9_EmptyNeighbourhood ==
    (k = 0 /\ ValidSecret) =>
        /\ pc \notin {"rank_failed", "project_failed"}
        /\ pc \in {"ranked", "projected"} => Size(local_ids) = 0
        /\ Projected => Size(coords) = 0

\* C10: after both stabilization passes the anchor (row 0) has a coordinate
\* >= 0 on each of the three axes.
C10_AnchorNonNegative ==
    Projected => \A j \in 0..2 : coords[0][j] >= 0

\* the call of project_to_3d has ended, with coordinates or an exception
ProjectEnded == pc \in {"projected", "projected_again", "project_failed"}

\* C11: with k = 1 or k = 2 neighbours project_to_3d does not raise: it
\* returns k points of three components each, and the axes beyond the k-th
\* are zero.
C11_FewNeighbours ==
    (ProjectEnded /\ Size(local_ids) \in {1, 2}) =>
        /\ pc # "project_failed"
        /\ Size(coords) = Size(local_ids)
        /\ \A i \in DOMAIN coords :
              /\ DOMAIN coords[i] = 0..2
              /\ \A j \in 0..2 : j >= Size(local_ids) => coords[i][j] = 0

\* the coordinates before the two stabilization passes
BeforeFlips ==
    LET recentred == Evaluated(Recentred(svd_coords))
    IN  Evaluated(Scaled(recentred))

SelectedRowsCoincide ==
    /\ Size(local_ids) >= 1
    /\ \A p, q \in DOMAIN local_ids :
          embeddings[local_ids[p]] = embeddings[local_ids[q]]

\* the largest norm of the recentred points is not above the floor
WithinFloor ==
    /\ Size(svd_coords) >= 1
    /\ MaxNormSq(Recentred(svd_coords)) <= Floor * Floor

\* C23: when all selected rows coincide (largest point norm not above
\* 1e-8) project_to_3d skips the scaling, raises no error and returns
\* coordinates that are all zero.
C23_CoincidentRowsGiveZeros ==
    (ProjectEnded /\ (SelectedRowsCoincide \/ WithinFloor)) =>
        /\ pc # "project_failed"
        /\ \A i \in DOMAIN coords : \A j \in DOMAIN coords[i] : coords[i][j] = 0

ExactCentroid ==
    /\ Size(svd_coords) >= 1
    /\ \A j \in 0..2 : ColSum(svd_coords, j) % Size(svd_coords) = 0

\* C25: the coordinates are recentred at their centroid before the
\* stabilization, so when the recentring is exact each axis column sums to
\* zero, the second loop negates no axis, and the returned coordinates are
\* those of the per-axis anchor pass and are centred at the origin.
C25_ExactCentringSkipsSumPass ==
    (Projected /\ ExactCentroid) =>
        LET before  == BeforeFlips
            perAxis == Evaluated([i \in DOMAIN before |->
                          [j \in 0..2 |-> IF before[0][j] < 0
                                          THEN -before[i][j]
                                          ELSE before[i][j]]])
        IN  /\ \A j \in 0..2 : ColSum(before, j) = 0
            /\ coords = perAxis
            /\ \A j \in 0..2 : ColSum(coords, j) = 0

\* exact recentring of points that do not coincide, and an axis negated by
\* the anchor pass
C25_Witness ==
    /\ Projected /\ ExactCentroid
    /\ MaxNormSq(svd_coords) > Floor * Floor
    /\ coords # BeforeFlips

----------------------------------------------------------------------------
(* Properties of the build, checked under SpecBuild *)

Written == pc = "written"

\* main has ended, with the files written or with an exception
BuildEnded == pc \in {"rank_failed", "project_failed", "write_failed", "written"}

\* C14: for every V >= 1, valid secret_id and k >= 0 the writer receives a
\* rank array of V entries and a coordinate array of 3k values, so that it
\* writes a rank.bin of 4*V bytes and a local_xyz.bin of 12*k bytes and both
\* size assertions pass.
C14_ArtifactSizes ==
    (BuildEnded /\ ValidSecret) =>
        /\ Written
        /\ Size(rank) = VocabSize
        /\ Size(XyzCells(coords)) = 3 * k
        /\ RankFileSize(files["rank"]) = 4 * VocabSize
        /\ XyzFileSize(files["local_xyz"]) = 12 * k

\* the text values of meta.json
MetaTexts == {files["meta"].date, files["meta"].secret_word}

\* C16: the files let a client verify a guess through the secret's hash and
\* never hold the secret word in plain text.
C16_SecretNotInFiles ==
    Written =>
        /\ files["meta"].secret_hash = hash_secret(vocab[secret_id], date_str)
        /\ vocab[secret_id] \notin MetaTexts

----------------------------------------------------------------------------
(* Properties of secret_for_date, checked under SpecSecret *)

\* C17: whenever secret_for_date returns, the index is in [0, vocab_size)
\* and its word passes every active filter: length >= min_length, alphabetic
\* when alpha_only is set, frequency >= min_freq when freqs is given.
C17_ReturnedWordPassesFilters ==
    pc = "secret_returned" =>
        /\ secret_id \in 0..(vocab_size - 1)
        /\ Len(vocab[secret_id]) >= min_length
        /\ alpha_only => IsAlpha(vocab[secret_id])
        /\ freqs.given => FreqOf(freqs.table, vocab[secret_id]) >= min_freq

\* returned with all three filters active, after a word that was long
\* enough but too rare
C17_Witness ==
    /\ pc = "secret_returned"
    /\ alpha_only /\ freqs.given /\ min_freq = HighMinFreq
    /\ min_length = DefaultMinLength
    /\ \E p \in 1..Len(probes) :
          /\ probes[p] # secret_id
          /\ Len(vocab[probes[p]]) >= min_length
          /\ FreqOf(freqs.table, vocab[probes[p]]) < min_freq

\* the call of secret_for_date has ended
SecretEnded == pc \in {"secret_returned", "secret_failed"}

\* the arguments of the call of the state
CallArgs ==
    [vocab_size |-> vocab_size, vocab |-> vocab, min_length |-> min_length,
     alpha_only |-> alpha_only, freqs |-> freqs, min_freq |-> min_freq]

\* no word of the vocabulary passes the filters of the call
NoValidWord == \A i \in DOMAIN vocab : ~IsValid(vocab[i], CallArgs)

\* C26: called with the size of its vocabulary, secret_for_date probes the
\* indices cyclically from seed mod vocab_size and returns the first index
\* whose word is valid; it ends after at most vocab_size probes, looks at no
\* index twice, and raises RuntimeError exactly when no word is valid.
C26_CyclicProbe ==
    (SecretEnded /\ MatchesDate(date_str) /\ vocab_size = Size(vocab)) =>
        /\ (pc = "secret_failed" /\ err = "RuntimeError") <=> NoValidWord
        /\ Len(probes) <= vocab_size
        /\ \A p, q \in 1..Len(probes) : p # q => probes[p] # probes[q]
        /\ \A p \in 1..Len(probes) :
              probes[p] = (SeedInt(date_str) + p - 1) % vocab_size
        /\ pc = "secret_returned" =>
              /\ secret_id = probes[Len(probes)]
              /\ IsValid(vocab[secret_id], CallArgs)
              /\ \A p \in 1..(Len(probes) - 1) :
                    ~IsValid(vocab[probes[p]], CallArgs)

\* the same statement for a vocabulary of at least one word
C26_CyclicProbeNonEmpty == vocab_size >= 1 => C26_CyclicProbe

\* the dates made of four digits, a dash, two digits, a dash, two digits and
\* nothing else
ExactFormDates == {"2025-01-01", "2025-01-02"}

\* C27: secret_for_date raises ValueError for every date string that is not
\* of the form YYYY-MM-DD and nothing else, before it reads the vocabulary
\* or computes a hash.
C27_MalformedDateRejected ==
    (SecretEnded /\ date_str \notin ExactFormDates) =>
        /\ pc = "secret_failed"
        /\ err = "ValueError"
        /\ probes = <<>>

----------------------------------------------------------------------------
(* Properties of filter_vocab, checked under SpecFilter *)

Filtered == pc = "filtered"

\* the input position of the p-th kept pair: vector i of the input is <<i>>
Origin(p) == filter_result.vectors[p][1]

\* C28: filter_vocab keeps an input word exactly when is_valid_word returns
\* True for it with the same min_length, english_words and obscene_words;
\* the kept words and vectors stay paired and in input order; total equals
\* kept plus the sum of the seven rejection counters.
C28_FilterAgreesWithIsValidWord ==
    Filtered =>
        LET kept  == filter_result.words
            stats == filter_result.stats
            count == [c \in RejectCounters |-> stats[c]]
        IN  /\ {Origin(p) : p \in DOMAIN kept}
                  = {i \in DOMAIN filter_args.words :
                        is_valid_word(filter_args.words[i], filter_args)}
            /\ DOMAIN filter_result.vectors = DOMAIN kept
            /\ \A p \in DOMAIN kept :
                  kept[p] = Lower(filter_args.words[Origin(p)])
            /\ \A p, q \in DOMAIN kept : p < q => Origin(p) < Origin(q)
            /\ stats["kept"] = Size(kept)
            /\ stats["total"] = Size(filter_args.words)
            /\ stats["total"] = stats["kept"]
                  + count["too_short"] + count["non_alpha_or_non_ascii"]
                  + count["not_in_dict"] + count["stopword"]
                  + count["repeated_chars"] + count["internet_garbage"]
                  + count["obscene"]

\* the same statement for the words that U+212A is not part of
C28_FilterAgreesOnPlainWords ==
    (\A i \in DOMAIN filter_args.words : filter_args.words[i] # "[K]elvin")
        => C28_FilterAgreesWithIsValidWord

----------------------------------------------------------------------------
(* Properties of the writer and the readers, checked under SpecArtifacts *)

\* C29: write_daily_artifacts is all-or-nothing for a date: if it raises
\* because a size assertion fails, none of the four files written by that
\* call remains.
C29_WriteAllOrNothing ==
    pc = "write_failed" => files = Empty

\* a reader script has ended
ReadEnded == pc \in {"found", "find_failed", "shown", "show_failed"}

\* rank.bin has 4 bytes for each of the vocab_size of meta.json
SizeMatches == Size(files["rank"]) = 4 * files["meta"].vocab_size

\* C30: the rank values written by write_daily_artifacts are read back
\* unchanged by find_word_rank and by show_top_words_simple, once they come
\* to read rank.bin: rank_read[i] = rank[i] for every i < V; and both
\* raise ValueError when the size of the file is not 4 * vocab_size of
\* meta.json.
C30_RankRoundTrip ==
    (ReadEnded /\ err # "SystemExit") =>
        /\ SizeMatches =>
              /\ err # "ValueError"
              /\ DOMAIN rank_read = DOMAIN rank
              /\ \A i \in DOMAIN rank : rank_read[i] = rank[i]
        /\ ~SizeMatches =>
              /\ err = "ValueError"
              /\ pc \in {"find_failed", "show_failed"}

\* three ranks of one, two and four significant bytes read back by
\* find_word_rank
C30_Witness ==
    /\ pc = "found"
    /\ Size(rank) = MaxV
    /\ {rank[i] : i \in DOMAIN rank} = RankValues

----------------------------------------------------------------------------
(* Properties of the selection of build_day, checked under SpecSelect *)

Selected == pc = "selected"

\* C18: a word of the loaded blacklist is never the daily secret, whether
\* the candidate file is present with usable entries, present without any,
\* or absent.
C18_BlacklistedNeverSecret ==
    Selected => vocab[secret_id] \notin blacklist

\* the secret of a run of the builder in a directory without
\* data/secret_candidates.json: secret_for_date(date_str, V, vocab)
SecretElsewhere == secret_for_date(date_str, DefaultArgs(vocab))

\* C19: for a fixed vocabulary the secret of a date is the same in every
\* run of the builder, wherever it runs: it is the secret of the run that
\* finds no candidate file.
C19_SameSecretEveryRun ==
    (Selected /\ SecretElsewhere.outcome = "return") =>
        secret_id = SecretElsewhere.id

====
